---- MODULE Spec2Model ----
(***************************************************************************)
(* The ring buffer and the IO lifecycle of the Echo / Engram virtual       *)
(* microphone (src/HALPlugin/EchoHalPlugin.cpp, EngramHalPlugin.cpp).      *)
(* The two files hold the same ring buffer and device code under two       *)
(* prefixes; the definitions below carry the names without the prefix,     *)
(* but for the Engram definitions of VariantSpec.                          *)
(*                                                                         *)
(*   SeqSpec   whole calls of RingBuffer_Write / RingBuffer_Read on one    *)
(*             buffer, with the history of what was passed and returned.   *)
(*   Spec      a producer thread and a consumer thread on one buffer, one  *)
(*             step per statement, with the buffer mutex.                  *)
(*   LiveSpec  producer, consumer and the host control thread, one step    *)
(*             per statement, with both mutexes; WeakSpec adds weak        *)
(*             fairness of each thread, for termination.                   *)
(*   DevSpec   the host control thread step by step, the host clock,       *)
(*             GetZeroTimeStamp and whole buffer calls.                    *)
(*   CallSpec  the device one whole handler at a time (StartIO, StopIO,    *)
(*             injection, pull cycle), with the history of the calls.      *)
(*   CreateSpec    construction with the outcome of calloc as an input,    *)
(*             then the host's use of the device.                          *)
(*   ExampleSpec   logged whole calls on a buffer of 8 samples.            *)
(*   PropertySpec  the property setters among the other whole calls.       *)
(*   AnySizeSpec   whole calls on a buffer of any capacity from 1 up.      *)
(*   IOSpec    the four IO-cycle callbacks among injections and            *)
(*             StartIO / StopIO.                                           *)
(*   VariantSpec   whole calls with the host clock, against which the      *)
(*             Engram variant, translated on its own, is compared.         *)
(*   RefSpec   QueryInterface, AddRef and Release with the reference       *)
(*             count and RingBuffer_Destroy.                               *)
(*   StreamSpec    the two threads step by step with fresh samples in      *)
(*             every call and the streams accepted and delivered.          *)
(*   PollSpec  the unlocked GetAvailableWrite / GetAvailableRead load by   *)
(*             load, beside the two threads' locked calls.                 *)
(***************************************************************************)
EXTENDS Integers, Sequences, FiniteSets, TLC

\* ---------------------------------------------------------------- bounds
\* Capacity of the modelled ring buffer, in samples (the program uses
\* kEchoRingBufferSize; the algorithm is the same for any size >= 1).
Size == 4
\* Number of write/read calls in a history of SeqSpec.
MaxCalls == 4
\* Largest host clock reading.
MaxClock == 2
\* Client IDs the host passes to StartIO / StopIO are 1..MaxClient.
MaxClient == 2
\* Largest ioBufferFrameSize of a pull cycle.
MaxIOFrames == 1
\* Samples accepted before the producer stops calling, in StreamSpec.
MaxAccepted == 6

\* Largest count passed to one write or read: above the capacity, so that
\* truncated writes and underrunning reads of every size happen.
MaxFrames == Size + 1
\* Samples are tagged 1..TagPeriod in the order the producer passes them, so
\* that a sample delivered twice, out of order or skipped shows; 0 is silence.
TagPeriod == 2 * Size

\* ----------------------------------------------------- program constants
kChannels == 2
\* UInt32 arithmetic wraps.  TLC's integers end at 2^31 - 1, so the wrap is
\* modelled at 2^30: far above every index and count of the model, as 2^32 is
\* far above every index and count of the program.
UInt32Range == 1073741824

U32(x) == x % UInt32Range

Min(a, b) == IF a < b THEN a ELSE b

\* ------------------------------------------------------------ ring buffer
\* A ring buffer value: the fields of the struct.  lock is the owner of the
\* pthread mutex, "none" when it is free.
\* The NULL storage pointer: storage with no slot.
NULL == <<>>

\* calloc(n, sizeof(Float32)): n zeroed samples, or NULL when the allocation
\* fails.
calloc(n, succeeds) ==
    IF succeeds THEN [k \in 0 .. n - 1 |-> 0] ELSE NULL

\* RingBuffer_Init with the storage calloc returned, which it does not test.
RingBuffer_InitWith(size, storage) ==
    [ size       |-> size,
      buffer     |-> storage,
      writeIndex |-> 0,
      readIndex  |-> 0,
      lock       |-> "none" ]

\* Mutant: Init leaves the write cursor one past the end of storage.
RingBuffer_Init_CursorAtEnd(size) ==
    [RingBuffer_InitWith(size, calloc(size, TRUE)) EXCEPT !.writeIndex = size]

\* RingBuffer_Init when the allocation succeeds.
RingBuffer_Init(size) == RingBuffer_InitWith(size, calloc(size, TRUE))

\* Mutant: the occupancy is writeIndex - readIndex even when the write
\* cursor has wrapped and the read cursor has not.
RingBuffer_GetAvailableRead_NoWrap(b) ==
    U32(b.writeIndex - b.readIndex)

RingBuffer_GetAvailableRead(b) ==
    LET w == b.writeIndex
        r == b.readIndex
    IN  IF w >= r THEN U32(w - r) ELSE U32(b.size - r + w)

\* Mutant: no slot is kept empty.
RingBuffer_GetAvailableWrite_NoSpare(b) ==
    U32(b.size - RingBuffer_GetAvailableRead(b))

RingBuffer_GetAvailableWrite(b) ==
    U32(b.size - RingBuffer_GetAvailableRead(b) - 1)

\* Mutant: the cursor is advanced before the sample is stored.
WriteSample_AdvanceFirst(b, x) ==
    [b EXCEPT !.buffer[U32(b.writeIndex + 1) % b.size] = x,
              !.writeIndex = U32(b.writeIndex + 1) % b.size]

\* Mutant: the cursor is not wrapped at the end of storage.
WriteSample_NoWrap(b, x) ==
    [b EXCEPT !.buffer[b.writeIndex] = x,
              !.writeIndex = U32(b.writeIndex + 1)]

\* Body of the write loop: buffer[writeIndex] = x; writeIndex = (writeIndex + 1) % size
WriteSample(b, x) ==
    [b EXCEPT !.buffer[b.writeIndex] = x,
              !.writeIndex = U32(b.writeIndex + 1) % b.size]

\* Mutant: the cursor is advanced before the sample is copied out.
ReadSample_AdvanceFirst(st, i) ==
    [ rb  |-> [st.rb EXCEPT !.readIndex = U32(st.rb.readIndex + 1) % st.rb.size],
      out |-> [st.out EXCEPT ![i + 1] =
                  st.rb.buffer[U32(st.rb.readIndex + 1) % st.rb.size]] ]

\* Body of the read loop: data[i] = buffer[readIndex];
\* readIndex = (readIndex + 1) % size.  st = [rb, out], out the caller's region.
ReadSample(st, i) ==
    [ rb  |-> [st.rb EXCEPT !.readIndex = U32(st.rb.readIndex + 1) % st.rb.size],
      out |-> [st.out EXCEPT ![i + 1] = st.rb.buffer[st.rb.readIndex]] ]

\* Mutant: the tail of the output is left as it was.
ZeroSample_Skipped(out, i) == out

\* Body of the zero-fill loop: data[i] = 0.0f
ZeroSample(out, i) == [out EXCEPT ![i + 1] = 0]

\* toWrite / toRead: (frames < available) ? frames : available
\* Mutant: the count asked for is written whatever the free space.
ToWrite_Unchecked(b, frames) == frames

ToWrite(b, frames) == Min(frames, RingBuffer_GetAvailableWrite(b))

\* Mutant: a read takes one sample at least when the buffer holds one.
ToRead_AtLeastOne(b, frames) ==
    Min(IF frames = 0 THEN 1 ELSE frames, RingBuffer_GetAvailableRead(b))

ToRead(b, frames) == Min(frames, RingBuffer_GetAvailableRead(b))

\* for (i = 0; i < toWrite; i++) { ... }  from iteration i on
RECURSIVE WriteLoop(_, _, _, _)
WriteLoop(b, data, i, toWrite) ==
    IF i < toWrite
    THEN WriteLoop(WriteSample(b, data[i + 1]), data, i + 1, toWrite)
    ELSE b

\* for (i = 0; i < toRead; i++) { ... }  from iteration i on
RECURSIVE ReadLoop(_, _, _)
ReadLoop(st, i, toRead) ==
    IF i < toRead
    THEN ReadLoop(ReadSample(st, i), i + 1, toRead)
    ELSE st

\* for (i = toRead; i < frames; i++) { ... }  from iteration i on
RECURSIVE ZeroFill(_, _, _)
ZeroFill(out, i, frames) ==
    IF i < frames
    THEN ZeroFill(ZeroSample(out, i), i + 1, frames)
    ELSE out

\* The caller's region before the call: n positions the callee has not
\* written, marked -1, which is neither a sample tag nor silence.
Fresh(n) == [k \in 1 .. n |-> -1]

\* The whole call, lock to unlock: the buffer after it and the return value.
RingBuffer_Write(b, data, frames) ==
    LET toWrite == ToWrite(b, frames)
    IN  [ rb  |-> WriteLoop(b, data, 0, toWrite),
          ret |-> toWrite ]

\* The whole call: the buffer after it, the caller's output region and the
\* return value.
RingBuffer_Read(b, frames) ==
    LET toRead == ToRead(b, frames)
        copied == ReadLoop([rb |-> b, out |-> Fresh(frames)], 0, toRead)
    IN  [ rb  |-> copied.rb,
          out |-> ZeroFill(copied.out, toRead, frames),
          ret |-> toRead ]

\* ------------------------------------------------------------------ state
VARIABLES
    rb,          \* gDevice.ringBuffer
    dev,         \* gDevice: isRunning, anchorHostTime, channels, stateLock owner
    clock,       \* the host clock that mach_absolute_time() reads
    prod,        \* the producer thread, inside or outside RingBuffer_Write
    cons,        \* the consumer (IO) thread, inside or outside RingBuffer_Read
    host,        \* the host control thread, inside or outside StartIO / StopIO
    zts,         \* what the last GetZeroTimeStamp call put in its out-parameters
    nextSample,  \* tag of the next sample the producer passes
    pending,     \* history: samples accepted by writes, not yet handed out
    hist,        \* history of the calls made so far
    last,        \* history: the last completed call, with the state before it
    prev,        \* history: the completed call before the last one
    active,      \* history: clients whose StartIO returned and who have not called
                 \* StopIO; whether every StopIO so far was for such a client
    captured,    \* history: the clock value the last StartIO read, -1 before the first
    gRefCount    \* the reference count of the driver interface

threads == <<prod, cons, host>>
device == <<dev, clock, zts, active, captured>>
history == <<hist, last, prev>>
vars == <<rb, dev, clock, prod, cons, host, zts, nextSample, pending, hist, last,
          prev, active, captured, gRefCount>>

\* The n samples the producer passes next, and the tag after them.
Tag(t, k) == ((t - 1 + k) % TagPeriod) + 1

NextData(n) == [k \in 1 .. n |-> Tag(nextSample, k - 1)]

IsPrefix(s, t) == Len(s) <= Len(t) /\ s = SubSeq(t, 1, Len(s))

NoCall == [op |-> "none"]

\* The state PlugIn_Create leaves: memset(&gDevice, 0), the channel count,
\* RingBuffer_Init, the two mutexes initialised and one reference.
PlugIn_Create ==
    /\ rb = RingBuffer_Init(Size)
    /\ dev = [ isRunning      |-> FALSE,
               anchorHostTime |-> 0,
               channels       |-> kChannels,
               stateLock      |-> "none" ]
    /\ gRefCount = 1

Init ==
    /\ PlugIn_Create
    /\ clock = 0
    /\ prod = [pc |-> "idle"]
    /\ cons = [pc |-> "idle"]
    /\ host = [pc |-> "idle"]
    /\ zts = [called |-> FALSE]
    /\ nextSample = 1
    /\ pending = <<>>
    /\ hist = [passed |-> <<>>, returned |-> <<>>, sumWrite |-> 0, sumRead |-> 0,
               clean |-> TRUE, calls |-> 0]
    /\ last = NoCall
    /\ prev = NoCall
    /\ active = [clients |-> {}, matched |-> TRUE]
    /\ captured = -1

\* ------------------------------------------ SeqSpec: one call at a time
\* RingBuffer_Write(&rb, data, frames) from lock to return, frames samples passed.
Write(frames) ==
    /\ hist.calls < MaxCalls
    /\ rb.lock = "none"
    /\ LET data == NextData(frames)
           res  == RingBuffer_Write(rb, data, frames)
       IN  /\ rb' = res.rb
           /\ nextSample' = Tag(nextSample, frames)
           /\ pending' = pending \o SubSeq(data, 1, res.ret)
           /\ hist' = [hist EXCEPT !.passed = @ \o data,
                                   !.sumWrite = @ + res.ret,
                                   !.clean = @ /\ res.ret = frames,
                                   !.calls = @ + 1]
           /\ last' = [op |-> "write", frames |-> frames, data |-> data,
                       ret |-> res.ret, pre |-> rb, pendingPre |-> pending]
           /\ prev' = last
    /\ UNCHANGED <<threads, device, gRefCount>>

\* RingBuffer_Read(&rb, out, frames) from lock to return.
Read(frames) ==
    /\ hist.calls < MaxCalls
    /\ rb.lock = "none"
    /\ LET res == RingBuffer_Read(rb, frames)
       IN  /\ rb' = res.rb
           /\ pending' = SubSeq(pending, res.ret + 1, Len(pending))
           /\ hist' = [hist EXCEPT !.returned = @ \o res.out,
                                   !.sumRead = @ + res.ret,
                                   !.clean = @ /\ res.ret = frames,
                                   !.calls = @ + 1]
           /\ last' = [op |-> "read", frames |-> frames, out |-> res.out,
                       ret |-> res.ret, pre |-> rb, pendingPre |-> pending]
           /\ prev' = last
    /\ UNCHANGED <<threads, device, nextSample, gRefCount>>

SeqNext ==
    \/ \E frames \in 0 .. MaxFrames : Write(frames)
    \/ \E frames \in 0 .. MaxFrames : Read(frames)

SeqSpec == Init /\ [][SeqNext]_vars

\* --------------------------------------- Spec: threads, step by step
\* Producer thread: RingBuffer_Write(&rb, data, frames), one step per statement.
\* The producer passes the next frames samples; after is the tag it goes on
\* with (nextSample itself when it passes the same pattern again).
Write_Begin(frames, after) ==
    /\ prod.pc = "idle"
    /\ prod' = [pc |-> "lock", frames |-> frames, data |-> NextData(frames)]
    /\ nextSample' = after
    /\ UNCHANGED <<rb, cons, host, device, gRefCount>>

Write_Call(frames, after) == Write_Begin(frames, after) /\ UNCHANGED <<pending, history>>

\* pthread_mutex_lock(&rb->lock): returns once the mutex is free.
Write_Lock ==
    /\ prod.pc = "lock"
    /\ rb.lock = "none"
    /\ rb' = [rb EXCEPT !.lock = "producer"]
    /\ prod' = [prod EXCEPT !.pc = "avail"]
    /\ UNCHANGED <<cons, host, device, nextSample, pending, history, gRefCount>>

Write_Available ==
    /\ prod.pc = "avail"
    /\ prod' = [pc |-> "loop", frames |-> prod.frames, data |-> prod.data,
                toWrite |-> ToWrite(rb, prod.frames), i |-> 0]
    /\ UNCHANGED <<rb, cons, host, device, nextSample, pending, history, gRefCount>>

\* One iteration of the write loop: what it does to the program's state.
Write_Store ==
    /\ prod.pc = "loop"
    /\ prod.i < prod.toWrite
    /\ rb' = WriteSample(rb, prod.data[prod.i + 1])
    /\ prod' = [prod EXCEPT !.i = @ + 1]
    /\ UNCHANGED <<cons, host, device, nextSample, gRefCount>>

Write_Loop == Write_Store /\ UNCHANGED <<pending, history>>

\* Mutant: the write returns with the mutex still held.
Write_Unlock_Forgotten ==
    /\ prod.pc = "loop"
    /\ ~ (prod.i < prod.toWrite)
    /\ prod' = [pc |-> "ret", frames |-> prod.frames, ret |-> prod.toWrite]
    /\ UNCHANGED <<rb, cons, host, device, nextSample, pending, history, gRefCount>>

\* Loop exit, pthread_mutex_unlock(&rb->lock).
Write_Unlock ==
    /\ prod.pc = "loop"
    /\ ~ (prod.i < prod.toWrite)
    /\ rb' = [rb EXCEPT !.lock = "none"]
    /\ prod' = [pc |-> "ret", frames |-> prod.frames, ret |-> prod.toWrite]
    /\ UNCHANGED <<cons, host, device, nextSample, pending, history, gRefCount>>

\* return toWrite
Write_Return ==
    /\ prod.pc = "ret"
    /\ prod' = [pc |-> "idle"]
    /\ UNCHANGED <<rb, cons, host, device, nextSample, pending, history, gRefCount>>

\* Consumer thread: RingBuffer_Read(&rb, out, frames), one step per statement.
Read_Begin(frames) ==
    /\ cons.pc = "idle"
    /\ cons' = [pc |-> "lock", frames |-> frames, out |-> Fresh(frames)]
    /\ UNCHANGED <<rb, prod, host, device, nextSample, gRefCount>>

Read_Enter(frames) == Read_Begin(frames) /\ UNCHANGED <<pending, history>>

Read_Call(frames) == Read_Enter(frames)

\* Mutant: the pull cycle reads only while the device is Running.
DoIOOperation_Call_WhenRunning(operationID, ioBufferFrameSize) ==
    IF operationID = "ReadInput" /\ dev.isRunning
    THEN Read_Enter(U32(ioBufferFrameSize * dev.channels))
    ELSE cons.pc = "idle" /\ UNCHANGED vars

\* DoIOOperation on the IO thread: the read-input operation reads
\* ioBufferFrameSize * channels samples into ioMainBuffer; any other
\* operation returns at once.
DoIOOperation_Call(operationID, ioBufferFrameSize) ==
    IF operationID = "ReadInput"
    THEN Read_Enter(U32(ioBufferFrameSize * dev.channels))
    ELSE cons.pc = "idle" /\ UNCHANGED vars

\* Mutant: the read enters its critical section without taking the mutex.
Read_Lock_Skipped ==
    /\ cons.pc = "lock"
    /\ cons' = [cons EXCEPT !.pc = "avail"]
    /\ UNCHANGED <<rb, prod, host, device, nextSample, pending, history, gRefCount>>

Read_Lock ==
    /\ cons.pc = "lock"
    /\ rb.lock = "none"
    /\ rb' = [rb EXCEPT !.lock = "consumer"]
    /\ cons' = [cons EXCEPT !.pc = "avail"]
    /\ UNCHANGED <<prod, host, device, nextSample, pending, history, gRefCount>>

\* Mutant: toRead is the count asked for, whatever the buffer holds.
Read_Available_Unchecked ==
    /\ cons.pc = "avail"
    /\ cons' = [pc |-> "copy", frames |-> cons.frames, out |-> cons.out,
                toRead |-> cons.frames, i |-> 0]
    /\ UNCHANGED <<rb, prod, host, device, nextSample, pending, history, gRefCount>>

Read_Available ==
    /\ cons.pc = "avail"
    /\ cons' = [pc |-> "copy", frames |-> cons.frames, out |-> cons.out,
                toRead |-> ToRead(rb, cons.frames), i |-> 0]
    /\ UNCHANGED <<rb, prod, host, device, nextSample, pending, history, gRefCount>>

\* One iteration of the copy loop: what it does to the program's state.
Read_Copy ==
    /\ cons.pc = "copy"
    /\ cons.i < cons.toRead
    /\ LET st == ReadSample([rb |-> rb, out |-> cons.out], cons.i)
       IN  /\ rb' = st.rb
           /\ cons' = [cons EXCEPT !.out = st.out, !.i = @ + 1]
    /\ UNCHANGED <<prod, host, device, nextSample, gRefCount>>

Read_Loop == Read_Copy /\ UNCHANGED <<pending, history>>

\* Exit of the copy loop; the zero-fill loop starts at i = toRead.
Read_LoopExit ==
    /\ cons.pc = "copy"
    /\ ~ (cons.i < cons.toRead)
    /\ cons' = [cons EXCEPT !.pc = "zero", !.i = cons.toRead]
    /\ UNCHANGED <<rb, prod, host, device, nextSample, pending, history, gRefCount>>

Read_ZeroFill ==
    /\ cons.pc = "zero"
    /\ cons.i < cons.frames
    /\ cons' = [cons EXCEPT !.out = ZeroSample(cons.out, cons.i), !.i = @ + 1]
    /\ UNCHANGED <<rb, prod, host, device, nextSample, pending, history, gRefCount>>

\* Exit of the zero-fill loop, pthread_mutex_unlock(&rb->lock).
Read_Unlock ==
    /\ cons.pc = "zero"
    /\ ~ (cons.i < cons.frames)
    /\ rb' = [rb EXCEPT !.lock = "none"]
    /\ cons' = [pc |-> "ret", frames |-> cons.frames, out |-> cons.out,
                ret |-> cons.toRead]
    /\ UNCHANGED <<prod, host, device, nextSample, pending, history, gRefCount>>

\* return toRead
Read_Return ==
    /\ cons.pc = "ret"
    /\ cons' = [pc |-> "idle"]
    /\ UNCHANGED <<rb, prod, host, device, nextSample, pending, history, gRefCount>>

\* mach_absolute_time(): the host clock, which never goes back.
mach_absolute_time == clock

Tick ==
    /\ clock < MaxClock
    /\ clock' = clock + 1
    /\ UNCHANGED <<rb, dev, threads, zts, active, captured, nextSample, pending, history, gRefCount>>

\* Host control thread: Device_StartIO(driver, device, clientID).
StartIO_Call(clientID) ==
    /\ host.pc = "idle"
    /\ host' = [pc |-> "start_lock", clientID |-> clientID,
                \* history: the clock, the state and the anchor at the call
                called |-> clock, from |-> dev.isRunning, old |-> dev.anchorHostTime]
    /\ UNCHANGED <<rb, prod, cons, device, nextSample, pending, history, gRefCount>>

\* Mutant: StartIO takes the buffer mutex together with the state mutex.
StartIO_Lock_Both ==
    /\ host.pc = "start_lock"
    /\ dev.stateLock = "none"
    /\ rb.lock = "none"
    /\ dev' = [dev EXCEPT !.stateLock = "host"]
    /\ rb' = [rb EXCEPT !.lock = "host"]
    /\ host' = [host EXCEPT !.pc = "start_run"]
    /\ UNCHANGED <<prod, cons, clock, zts, active, captured, nextSample, pending, history, gRefCount>>

\* pthread_mutex_lock(&gDevice.stateLock)
StartIO_Lock ==
    /\ host.pc = "start_lock"
    /\ dev.stateLock = "none"
    /\ dev' = [dev EXCEPT !.stateLock = "host"]
    /\ host' = [host EXCEPT !.pc = "start_run"]
    /\ UNCHANGED <<rb, prod, cons, clock, zts, active, captured, nextSample, pending, history, gRefCount>>

\* gDevice.isRunning = true
StartIO_SetRunning ==
    /\ host.pc = "start_run"
    /\ dev' = [dev EXCEPT !.isRunning = TRUE]
    /\ host' = [host EXCEPT !.pc = "start_anchor"]
    /\ UNCHANGED <<rb, prod, cons, clock, zts, active, captured, nextSample, pending, history, gRefCount>>

\* Mutant: the anchor is taken at the first start only.
StartIO_Anchor_Once ==
    /\ host.pc = "start_anchor"
    /\ dev' = [dev EXCEPT !.anchorHostTime =
                   IF @ = 0 THEN mach_absolute_time ELSE @]
    /\ captured' = mach_absolute_time
    /\ host' = [host EXCEPT !.pc = "start_unlock"]
    /\ UNCHANGED <<rb, prod, cons, clock, zts, active, nextSample, pending, history, gRefCount>>

\* gDevice.anchorHostTime = mach_absolute_time()
StartIO_Anchor ==
    /\ host.pc = "start_anchor"
    /\ dev' = [dev EXCEPT !.anchorHostTime = mach_absolute_time]
    /\ captured' = mach_absolute_time
    /\ host' = [host EXCEPT !.pc = "start_unlock"]
    /\ UNCHANGED <<rb, prod, cons, clock, zts, active, nextSample, pending, history, gRefCount>>

\* pthread_mutex_unlock(&gDevice.stateLock)
StartIO_Unlock ==
    /\ host.pc = "start_unlock"
    /\ dev' = [dev EXCEPT !.stateLock = "none"]
    /\ host' = [host EXCEPT !.pc = "start_ret"]
    /\ UNCHANGED <<rb, prod, cons, clock, zts, active, captured, nextSample, pending, history, gRefCount>>

\* printf(...); return kAudioHardwareNoError
StartIO_Return ==
    /\ host.pc = "start_ret"
    /\ host' = [pc |-> "idle", returned |-> "StartIO", status |-> "kAudioHardwareNoError"]
    /\ active' = [active EXCEPT !.clients = @ \cup {host.clientID}]
    /\ UNCHANGED <<rb, prod, cons, dev, clock, zts, captured, nextSample, pending, history, gRefCount>>

\* Host control thread: Device_StopIO(driver, device, clientID).
StopIO_Call(clientID) ==
    /\ host.pc = "idle"
    /\ host' = [pc |-> "stop_lock", clientID |-> clientID]
    /\ active' = [clients |-> active.clients \ {clientID},
                  matched |-> active.matched /\ clientID \in active.clients]
    /\ UNCHANGED <<rb, prod, cons, dev, clock, zts, captured, nextSample, pending, history, gRefCount>>

\* pthread_mutex_lock(&gDevice.stateLock)
StopIO_Lock ==
    /\ host.pc = "stop_lock"
    /\ dev.stateLock = "none"
    /\ dev' = [dev EXCEPT !.stateLock = "host"]
    /\ host' = [host EXCEPT !.pc = "stop_run"]
    /\ UNCHANGED <<rb, prod, cons, clock, zts, active, captured, nextSample, pending, history, gRefCount>>

\* Mutant: stopping also clears the anchor.
StopIO_ClearRunning_AndAnchor ==
    /\ host.pc = "stop_run"
    /\ dev' = [dev EXCEPT !.isRunning = FALSE, !.anchorHostTime = 0]
    /\ host' = [host EXCEPT !.pc = "stop_unlock"]
    /\ UNCHANGED <<rb, prod, cons, clock, zts, active, captured, nextSample, pending, history, gRefCount>>

\* gDevice.isRunning = false
StopIO_ClearRunning ==
    /\ host.pc = "stop_run"
    /\ dev' = [dev EXCEPT !.isRunning = FALSE]
    /\ host' = [host EXCEPT !.pc = "stop_unlock"]
    /\ UNCHANGED <<rb, prod, cons, clock, zts, active, captured, nextSample, pending, history, gRefCount>>

\* pthread_mutex_unlock(&gDevice.stateLock)
StopIO_Unlock ==
    /\ host.pc = "stop_unlock"
    /\ dev' = [dev EXCEPT !.stateLock = "none"]
    /\ host' = [host EXCEPT !.pc = "stop_ret"]
    /\ UNCHANGED <<rb, prod, cons, clock, zts, active, captured, nextSample, pending, history, gRefCount>>

\* printf(...); return kAudioHardwareNoError
StopIO_Return ==
    /\ host.pc = "stop_ret"
    /\ host' = [pc |-> "idle", returned |-> "StopIO", status |-> "kAudioHardwareNoError"]
    /\ UNCHANGED <<rb, prod, cons, device, nextSample, pending, history, gRefCount>>

\* Mutant: the reported sample time advances with the samples pulled.
GetZeroTimeStamp_Advancing ==
    /\ zts' = [ called     |-> TRUE,
                sampleTime |-> rb.readIndex,
                hostTime   |-> dev.anchorHostTime,
                seed       |-> 1,
                status     |-> "kAudioHardwareNoError",
                stopped    |-> ~ dev.isRunning ]
    /\ UNCHANGED <<rb, dev, clock, threads, active, captured, nextSample, pending, history, gRefCount>>

\* Device_GetZeroTimeStamp: three stores to the out-parameters, one read of
\* gDevice.anchorHostTime, no lock.
GetZeroTimeStamp ==
    /\ zts' = [ called     |-> TRUE,
                sampleTime |-> 0,
                hostTime   |-> dev.anchorHostTime,
                seed       |-> 1,
                status     |-> "kAudioHardwareNoError",
                \* history: the call was made while Stopped
                stopped    |-> ~ dev.isRunning ]
    /\ UNCHANGED <<rb, dev, clock, threads, active, captured, nextSample, pending, history, gRefCount>>

Next ==
    \/ \E frames \in 0 .. MaxFrames : Write_Call(frames, nextSample)
    \/ Write_Lock
    \/ Write_Available
    \/ Write_Loop
    \/ Write_Unlock
    \/ Write_Return
    \/ \E frames \in 0 .. MaxFrames : Read_Call(frames)
    \/ \E op \in {"ReadInput", "WriteMix"}, n \in 0 .. MaxIOFrames : DoIOOperation_Call(op, n)
    \/ Read_Lock
    \/ Read_Available
    \/ Read_Loop
    \/ Read_LoopExit
    \/ Read_ZeroFill
    \/ Read_Unlock
    \/ Read_Return

Spec == Init /\ [][Next]_vars

\* The steps a thread takes inside a call it has made.
ProducerStep ==
    \/ Write_Lock
    \/ Write_Available
    \/ Write_Loop
    \/ Write_Unlock
    \/ Write_Return

ConsumerStep ==
    \/ Read_Lock
    \/ Read_Available
    \/ Read_Loop
    \/ Read_LoopExit
    \/ Read_ZeroFill
    \/ Read_Unlock
    \/ Read_Return

HostStep ==
    \/ StartIO_Lock
    \/ StartIO_SetRunning
    \/ StartIO_Anchor
    \/ StartIO_Unlock
    \/ StartIO_Return
    \/ StopIO_Lock
    \/ StopIO_ClearRunning
    \/ StopIO_Unlock
    \/ StopIO_Return

\* Spec with the calls that termination is about: writes that fill the
\* buffer in one call (the next one finds it full) and pull cycles of
\* MaxIOFrames frames (which find it empty every other time).
LiveNext ==
    \/ Write_Call(Size - 1, nextSample)
    \/ ProducerStep
    \/ DoIOOperation_Call("ReadInput", MaxIOFrames)
    \/ ConsumerStep
    \/ StartIO_Call(1)
    \/ StopIO_Call(1)
    \/ HostStep

LiveSpec == Init /\ [][LiveNext]_vars

\* Weak fairness of each thread's steps: a thread that can take a step of
\* its call, and goes on being able to, takes it.
WeakSpec ==
    /\ LiveSpec
    /\ WF_vars(ProducerStep)
    /\ WF_vars(ConsumerStep)
    /\ WF_vars(HostStep)

\* ------------------------------ DevSpec: the lifecycle, call by call
\* The producer's injection, a whole RingBuffer_Write call of n frames of
\* kChannels samples.
InjectSamples(n) ==
    /\ rb.lock = "none"
    /\ rb' = RingBuffer_Write(rb, NextData(n * dev.channels), n * dev.channels).rb
    /\ UNCHANGED <<threads, device, nextSample, pending, history, gRefCount>>

\* Device_DoIOOperation, the whole handler: the read-input operation reads
\* ioBufferFrameSize * channels samples; any other operation does nothing.
DoIOOperation(operationID, ioBufferFrameSize) ==
    /\ rb.lock = "none"
    /\ IF operationID = "ReadInput"
       THEN rb' = RingBuffer_Read(rb, U32(ioBufferFrameSize * dev.channels)).rb
       ELSE rb' = rb
    /\ UNCHANGED <<threads, device, nextSample, pending, history, gRefCount>>

DevNext ==
    \/ \E c \in 1 .. MaxClient : StartIO_Call(c)
    \/ \E c \in 1 .. MaxClient : StopIO_Call(c)
    \/ HostStep
    \/ GetZeroTimeStamp
    \/ Tick
    \/ InjectSamples(MaxIOFrames)
    \/ \E op \in {"ReadInput", "WriteMix"} : DoIOOperation(op, MaxIOFrames)

DevSpec == Init /\ [][DevNext]_vars

\* ------------------ CallSpec: the device, one whole handler at a time
\* Histories of MaxCalls calls at most, the lifecycle calls counted.
\* What a later call remembers of the call before it: which call it was and
\* the buffer it found.
Brief(call) ==
    IF call.op = "none"
    THEN NoCall
    ELSE [op |-> call.op, pre |-> call.pre, pendingPre |-> call.pendingPre]

\* Mutant: starting the device empties the buffer.
StartIO_Flushing(clientID) ==
    /\ hist.calls < MaxCalls
    /\ host.pc = "idle"
    /\ dev.stateLock = "none"
    /\ dev' = [dev EXCEPT !.isRunning = TRUE, !.anchorHostTime = mach_absolute_time]
    /\ rb' = [rb EXCEPT !.readIndex = rb.writeIndex]
    /\ captured' = mach_absolute_time
    /\ host' = [pc |-> "idle", returned |-> "StartIO", status |-> "kAudioHardwareNoError"]
    /\ last' = [op |-> "start", from |-> dev.isRunning, pre |-> rb,
                pendingPre |-> pending, before |-> Brief(last)]
    /\ prev' = last
    /\ hist' = [hist EXCEPT !.calls = @ + 1]
    /\ UNCHANGED <<prod, cons, clock, zts, active, nextSample, pending, gRefCount>>

\* Device_StartIO from lock to return.
StartIO(clientID) ==
    /\ hist.calls < MaxCalls
    /\ host.pc = "idle"
    /\ dev.stateLock = "none"
    /\ dev' = [dev EXCEPT !.isRunning = TRUE, !.anchorHostTime = mach_absolute_time]
    /\ captured' = mach_absolute_time
    /\ host' = [pc |-> "idle", returned |-> "StartIO", status |-> "kAudioHardwareNoError"]
    /\ last' = [op |-> "start", from |-> dev.isRunning, pre |-> rb,
                pendingPre |-> pending, before |-> Brief(last)]
    /\ prev' = last
    /\ hist' = [hist EXCEPT !.calls = @ + 1]
    /\ UNCHANGED <<rb, prod, cons, clock, zts, active, nextSample, pending, gRefCount>>

\* Mutant: StopIO also clears the anchor.
StopIO_ClearingAnchor(clientID) ==
    /\ hist.calls < MaxCalls
    /\ host.pc = "idle"
    /\ dev.stateLock = "none"
    /\ dev' = [dev EXCEPT !.isRunning = FALSE, !.anchorHostTime = 0]
    /\ host' = [pc |-> "idle", returned |-> "StopIO", status |-> "kAudioHardwareNoError"]
    /\ last' = [op |-> "stop", from |-> dev.isRunning, pre |-> rb,
                pendingPre |-> pending, before |-> Brief(last)]
    /\ prev' = last
    /\ hist' = [hist EXCEPT !.calls = @ + 1]
    /\ UNCHANGED <<rb, prod, cons, clock, zts, active, captured, nextSample, pending, gRefCount>>

\* Device_StopIO from lock to return.
StopIO(clientID) ==
    /\ hist.calls < MaxCalls
    /\ host.pc = "idle"
    /\ dev.stateLock = "none"
    /\ dev' = [dev EXCEPT !.isRunning = FALSE]
    /\ host' = [pc |-> "idle", returned |-> "StopIO", status |-> "kAudioHardwareNoError"]
    /\ last' = [op |-> "stop", from |-> dev.isRunning, pre |-> rb,
                pendingPre |-> pending, before |-> Brief(last)]
    /\ prev' = last
    /\ hist' = [hist EXCEPT !.calls = @ + 1]
    /\ UNCHANGED <<rb, prod, cons, clock, zts, active, captured, nextSample, pending, gRefCount>>

\* Mutant: samples are accepted only while the device is Running.
Inject_WhenRunning(frames) ==
    IF dev.isRunning THEN Write(frames) ELSE Write(0)

\* Sample injection by the application: RingBuffer_Write on the device's
\* buffer, which reads nothing of the device but the buffer.
Inject(frames) == Write(frames)

\* Mutant: the frame count is passed on as the sample count.
IOCycle_FramesOnly(operationID, ioBufferFrameSize) ==
    IF operationID = "ReadInput"
    THEN Read(U32(ioBufferFrameSize))
    ELSE hist.calls < MaxCalls /\ UNCHANGED vars

\* Device_DoIOOperation, the whole handler with its output region: the
\* read-input operation is RingBuffer_Read of ioBufferFrameSize * channels
\* samples into ioMainBuffer; any other operation touches nothing.
IOCycle(operationID, ioBufferFrameSize) ==
    IF operationID = "ReadInput"
    THEN Read(U32(ioBufferFrameSize * dev.channels))
    ELSE hist.calls < MaxCalls /\ UNCHANGED vars

CallNext ==
    \/ \E c \in 1 .. MaxClient : StartIO(c)
    \/ \E c \in 1 .. MaxClient : StopIO(c)
    \/ \E frames \in 0 .. MaxFrames : Inject(frames)
    \/ \E op \in {"ReadInput", "WriteMix"}, n \in 0 .. MaxIOFrames : IOCycle(op, n)

CallSpec == Init /\ [][CallNext]_vars

\* ------------- CreateSpec: construction, then the host uses the device
\* gDevice before PlugIn_Create: static storage, all zero.
CreateInit ==
    /\ rb = [size |-> 0, buffer |-> NULL, writeIndex |-> 0, readIndex |-> 0,
             lock |-> "none"]
    /\ dev = [isRunning |-> FALSE, anchorHostTime |-> 0, channels |-> 0,
              stateLock |-> "none", objectID |-> 0]
    /\ clock = 0
    /\ prod = [pc |-> "idle"]
    /\ cons = [pc |-> "idle"]
    /\ host = [pc |-> "idle", returned |-> "none"]
    /\ gRefCount = 0
    /\ zts = [called |-> FALSE]
    /\ nextSample = 1
    /\ pending = <<>>
    /\ hist = [passed |-> <<>>, returned |-> <<>>, sumWrite |-> 0, sumRead |-> 0,
               clean |-> TRUE, calls |-> 0]
    /\ last = NoCall
    /\ prev = NoCall
    /\ active = [clients |-> {}, matched |-> TRUE]
    /\ captured = -1

\* PlugIn_Create: memset, the constants, RingBuffer_Init, the state mutex;
\* it returns the interface whatever calloc returned.  allocated is the
\* outcome of calloc.
PlugIn_CreateWith(allocated) ==
    /\ host.pc = "idle"
    /\ host.returned = "none"
    /\ rb' = RingBuffer_InitWith(Size, calloc(Size, allocated))
    /\ dev' = [ isRunning      |-> FALSE,
                anchorHostTime |-> 0,
                channels       |-> kChannels,
                stateLock      |-> "none",
                objectID       |-> 0 ]
    /\ gRefCount' = 1
    /\ host' = [pc |-> "idle", returned |-> "Create", result |-> "interface"]
    /\ UNCHANGED <<clock, prod, cons, zts, active, captured, nextSample, pending, history>>

\* PlugIn_Initialize: gDevice.objectID = 1000; return kAudioHardwareNoError
PlugIn_Initialize ==
    /\ host.pc = "idle"
    /\ host.returned = "Create"
    /\ host.result = "interface"
    /\ dev' = [dev EXCEPT !.objectID = 1000]
    /\ host' = [pc |-> "idle", returned |-> "Initialize",
                status |-> "kAudioHardwareNoError"]
    /\ UNCHANGED <<rb, clock, prod, cons, zts, active, captured, nextSample, pending, history, gRefCount>>

\* PlugIn_CreateDevice: *outDeviceObjectID = gDevice.objectID
PlugIn_CreateDevice ==
    /\ host.pc = "idle"
    /\ host.returned = "Initialize"
    /\ host.status = "kAudioHardwareNoError"
    /\ host' = [pc |-> "idle", returned |-> "CreateDevice",
                status |-> "kAudioHardwareNoError",
                outDeviceObjectID |-> dev.objectID]
    /\ UNCHANGED <<rb, dev, clock, prod, cons, zts, active, captured, nextSample, pending, history, gRefCount>>

\* The process ends on an access through the NULL storage pointer.
NullDereference ==
    /\ host' = [pc |-> "crashed", returned |-> host.returned]
    /\ UNCHANGED <<rb, dev, clock, prod, cons, zts, active, captured, nextSample, pending, history, gRefCount>>

\* The host, holding the device, lets the application write: the copy loop
\* stores through rb->buffer as soon as it has one sample to write.
Host_Write(frames) ==
    /\ host.pc = "idle"
    /\ host.returned = "CreateDevice"
    /\ IF rb.buffer = NULL /\ ToWrite(rb, frames) > 0
       THEN NullDereference
       ELSE Write(frames)

\* The host, holding the device, runs a pull cycle: the copy loop loads
\* through rb->buffer as soon as it has one sample to read.
Host_IOCycle(operationID, ioBufferFrameSize) ==
    /\ host.pc = "idle"
    /\ host.returned = "CreateDevice"
    /\ IF /\ rb.buffer = NULL
          /\ operationID = "ReadInput"
          /\ ToRead(rb, U32(ioBufferFrameSize * dev.channels)) > 0
       THEN NullDereference
       ELSE IOCycle(operationID, ioBufferFrameSize)

CreateNext ==
    \/ \E allocated \in BOOLEAN : PlugIn_CreateWith(allocated)
    \/ PlugIn_Initialize
    \/ PlugIn_CreateDevice
    \/ \E frames \in 0 .. MaxFrames : Host_Write(frames)
    \/ \E op \in {"ReadInput", "WriteMix"}, n \in 0 .. MaxIOFrames : Host_IOCycle(op, n)

CreateSpec == CreateInit /\ [][CreateNext]_vars

\* ------------- ExampleSpec: whole calls on a buffer of 8 samples, logged
\* The buffer of the worked example, and the log of the calls made on it.
ExampleInit ==
    /\ rb = RingBuffer_Init(8)
    /\ dev = [ isRunning      |-> FALSE,
               anchorHostTime |-> 0,
               channels       |-> kChannels,
               stateLock      |-> "none" ]
    /\ clock = 0
    /\ prod = [pc |-> "idle"]
    /\ cons = [pc |-> "idle"]
    /\ host = [pc |-> "idle"]
    /\ zts = [called |-> FALSE]
    /\ nextSample = 1
    /\ pending = <<>>
    /\ hist = [calls |-> 0, log |-> <<>>]
    /\ last = NoCall
    /\ prev = NoCall
    /\ active = [clients |-> {}, matched |-> TRUE]
    /\ captured = -1
    /\ gRefCount = 1

\* RingBuffer_Write(&rb, data, frames), data the next frames integers.
Example_Write(frames) ==
    /\ hist.calls < MaxCalls
    /\ LET data == [k \in 1 .. frames |-> nextSample + k - 1]
           res  == RingBuffer_Write(rb, data, frames)
       IN  /\ rb' = res.rb
           /\ nextSample' = nextSample + frames
           /\ hist' = [ calls |-> hist.calls + 1,
                        log   |-> Append(hist.log,
                                    [op |-> "write", frames |-> frames, data |-> data,
                                     ret |-> res.ret, pre |-> rb, post |-> res.rb]) ]
    /\ UNCHANGED <<threads, device, pending, last, prev, gRefCount>>

\* RingBuffer_Read(&rb, out, frames)
Example_Read(frames) ==
    /\ hist.calls < MaxCalls
    /\ LET res == RingBuffer_Read(rb, frames)
       IN  /\ rb' = res.rb
           /\ hist' = [ calls |-> hist.calls + 1,
                        log   |-> Append(hist.log,
                                    [op |-> "read", frames |-> frames, out |-> res.out,
                                     ret |-> res.ret, pre |-> rb, post |-> res.rb]) ]
    /\ UNCHANGED <<threads, device, nextSample, pending, last, prev, gRefCount>>

ExampleNext ==
    \/ \E frames \in 0 .. 7 : Example_Write(frames)
    \/ \E frames \in {4, 10} : Example_Read(frames)

ExampleSpec == ExampleInit /\ [][ExampleNext]_vars

\* ------------ PropertySpec: the property setters among the other calls
\* The objects the host may name: kAudioObjectUnknown, the plug-in
\* (kAudioObjectPlugInObject) and the device (gDevice.objectID).
ObjectIDs == {0, 1, 1000}

\* The selectors the plug-in knows, and one it does not.
Selectors ==
    { "kAudioDevicePropertyDeviceName",
      "kAudioDevicePropertyDeviceManufacturer",
      "kAudioDevicePropertyNominalSampleRate",
      "kAudioDevicePropertyStreams",
      "kAudioObjectPropertyName" }

\* Device_IsPropertySettable: *outIsSettable = false; return kAudioHardwareNoError
IsPropertySettable(objectID, mSelector) ==
    /\ host.pc = "idle"
    /\ host' = [ pc |-> "idle", returned |-> "IsPropertySettable",
                 objectID |-> objectID, mSelector |-> mSelector,
                 outIsSettable |-> FALSE,
                 status |-> "kAudioHardwareNoError" ]
    /\ UNCHANGED <<rb, prod, cons, device, nextSample, pending, history, gRefCount>>

\* Mutant: the nominal sample rate of the device can be set.
SetPropertyData_SampleRate(objectID, mSelector) ==
    /\ host.pc = "idle"
    /\ host' = [ pc |-> "idle", returned |-> "SetPropertyData",
                 objectID |-> objectID, mSelector |-> mSelector,
                 status |-> IF mSelector = "kAudioDevicePropertyNominalSampleRate"
                            THEN "kAudioHardwareNoError"
                            ELSE "kAudioHardwareUnsupportedOperationError" ]
    /\ UNCHANGED <<rb, prod, cons, device, nextSample, pending, history, gRefCount>>

\* Device_SetPropertyData: return kAudioHardwareUnsupportedOperationError
SetPropertyData(objectID, mSelector) ==
    /\ host.pc = "idle"
    /\ host' = [ pc |-> "idle", returned |-> "SetPropertyData",
                 objectID |-> objectID, mSelector |-> mSelector,
                 status |-> "kAudioHardwareUnsupportedOperationError" ]
    /\ UNCHANGED <<rb, prod, cons, device, nextSample, pending, history, gRefCount>>

PropertyNext ==
    \/ \E o \in ObjectIDs, s \in Selectors : IsPropertySettable(o, s)
    \/ \E o \in ObjectIDs, s \in Selectors : SetPropertyData(o, s)
    \/ StartIO(1)
    \/ StopIO(1)
    \/ Inject(Size - 1)
    \/ IOCycle("ReadInput", MaxIOFrames)

PropertySpec == Init /\ [][PropertyNext]_vars

\* ------------- AnySizeSpec: whole calls on a buffer of any capacity
\* The state after RingBuffer_Init(&rb, size) for a size of 1 at least.
AnySizeInit ==
    /\ \E size \in 1 .. Size : rb = RingBuffer_Init(size)
    /\ dev = [ isRunning      |-> FALSE,
               anchorHostTime |-> 0,
               channels       |-> kChannels,
               stateLock      |-> "none" ]
    /\ clock = 0
    /\ prod = [pc |-> "idle"]
    /\ cons = [pc |-> "idle"]
    /\ host = [pc |-> "idle"]
    /\ zts = [called |-> FALSE]
    /\ nextSample = 1
    /\ pending = <<>>
    /\ hist = [passed |-> <<>>, returned |-> <<>>, sumWrite |-> 0, sumRead |-> 0,
               clean |-> TRUE, calls |-> 0]
    /\ last = NoCall
    /\ prev = NoCall
    /\ active = [clients |-> {}, matched |-> TRUE]
    /\ captured = -1
    /\ gRefCount = 1

AnySizeNext ==
    \/ \E frames \in 0 .. MaxFrames : Write(frames)
    \/ \E frames \in 0 .. MaxFrames : Read(frames)

AnySizeSpec == AnySizeInit /\ [][AnySizeNext]_vars

\* --------------- IOSpec: the IO callbacks among the other whole calls
\* Operation IDs the host passes: the one the plug-in serves and two others.
IOOperations == {"ReadInput", "WriteMix", "ProcessOutput"}

\* Device_WillDoIOOperation: *outWillDo = (operationID == ReadInput);
\* *outWillDoInPlace = true; return kAudioHardwareNoError
WillDoIOOperation(operationID) ==
    /\ cons.pc = "idle"
    /\ cons' = [ pc |-> "idle", returned |-> "WillDoIOOperation",
                 operationID |-> operationID,
                 outWillDo |-> (operationID = "ReadInput"),
                 outWillDoInPlace |-> TRUE,
                 status |-> "kAudioHardwareNoError" ]
    /\ UNCHANGED <<rb, prod, host, device, nextSample, pending, history, gRefCount>>

\* Device_BeginIOOperation: return kAudioHardwareNoError
BeginIOOperation(operationID, ioBufferFrameSize) ==
    /\ cons.pc = "idle"
    /\ cons' = [ pc |-> "idle", returned |-> "BeginIOOperation",
                 operationID |-> operationID,
                 ioBufferFrameSize |-> ioBufferFrameSize,
                 status |-> "kAudioHardwareNoError" ]
    /\ UNCHANGED <<rb, prod, host, device, nextSample, pending, history, gRefCount>>

\* Device_EndIOOperation: return kAudioHardwareNoError
EndIOOperation(operationID, ioBufferFrameSize) ==
    /\ cons.pc = "idle"
    /\ cons' = [ pc |-> "idle", returned |-> "EndIOOperation",
                 operationID |-> operationID,
                 ioBufferFrameSize |-> ioBufferFrameSize,
                 status |-> "kAudioHardwareNoError" ]
    /\ UNCHANGED <<rb, prod, host, device, nextSample, pending, history, gRefCount>>

\* Mutant: DoIOOperation reads the ring buffer for every operation.
IOThread_DoIOOperation_AnyOperation(operationID, ioBufferFrameSize) ==
    /\ cons.pc = "idle"
    /\ Read(U32(ioBufferFrameSize * dev.channels))

\* Device_DoIOOperation on the IO thread, the whole handler: the read-input
\* operation is RingBuffer_Read into ioMainBuffer; any other operation only
\* returns kAudioHardwareNoError.
IOThread_DoIOOperation(operationID, ioBufferFrameSize) ==
    /\ cons.pc = "idle"
    /\ IF operationID = "ReadInput"
       THEN Read(U32(ioBufferFrameSize * dev.channels))
       ELSE /\ cons' = [ pc |-> "idle", returned |-> "DoIOOperation",
                         operationID |-> operationID,
                         ioBufferFrameSize |-> ioBufferFrameSize,
                         status |-> "kAudioHardwareNoError" ]
            /\ UNCHANGED <<rb, prod, host, device, nextSample, pending, history, gRefCount>>

IONext ==
    \/ \E op \in IOOperations : WillDoIOOperation(op)
    \/ \E op \in IOOperations, n \in 0 .. MaxIOFrames : BeginIOOperation(op, n)
    \/ \E op \in IOOperations, n \in 0 .. MaxIOFrames : IOThread_DoIOOperation(op, n)
    \/ \E op \in IOOperations, n \in 0 .. MaxIOFrames : EndIOOperation(op, n)
    \/ Inject(Size - 1)
    \/ StartIO(1)
    \/ StopIO(1)

IOSpec == Init /\ [][IONext]_vars

\* ------------------------------- VariantSpec: the Engram variant, call by call
\* EngramHalPlugin.cpp, translated on its own.  Its gDevice is read through the
\* same variables: gDevice.ringBuffer is rb, the other fields are dev.
kEngramChannels == 2

\* EngramRingBuffer_Init: the fields as the five statements leave them.
EngramRingBuffer_Init(size) ==
    [ size       |-> size,
      buffer     |-> [k \in 0 .. size - 1 |-> 0],
      writeIndex |-> 0,
      readIndex  |-> 0,
      lock       |-> "none" ]

EngramRingBuffer_GetAvailableRead(b) ==
    IF b.writeIndex >= b.readIndex
    THEN U32(b.writeIndex - b.readIndex)
    ELSE U32(b.size - b.readIndex + b.writeIndex)

EngramRingBuffer_GetAvailableWrite(b) ==
    U32(b.size - EngramRingBuffer_GetAvailableRead(b) - 1)

\* EngramRingBuffer_Write, the loop from iteration i on.
RECURSIVE EngramRingBuffer_WriteFrom(_, _, _, _)
EngramRingBuffer_WriteFrom(b, data, i, toWrite) ==
    IF i < toWrite
    THEN LET stored == [b.buffer EXCEPT ![b.writeIndex] = data[i + 1]]
         IN  EngramRingBuffer_WriteFrom(
                 [b EXCEPT !.buffer = stored,
                           !.writeIndex = U32(b.writeIndex + 1) % b.size],
                 data, i + 1, toWrite)
    ELSE b

EngramRingBuffer_Write(b, data, frames) ==
    LET available == EngramRingBuffer_GetAvailableWrite(b)
        toWrite   == IF frames < available THEN frames ELSE available
    IN  [ rb  |-> EngramRingBuffer_WriteFrom(b, data, 0, toWrite),
          ret |-> toWrite ]

\* EngramRingBuffer_Read, the two loops from iteration i on: the copy loop up
\* to toRead, the zero-fill loop from there to frames.
RECURSIVE EngramRingBuffer_ReadFrom(_, _, _, _, _)
EngramRingBuffer_ReadFrom(b, out, i, toRead, frames) ==
    IF i < toRead
    THEN EngramRingBuffer_ReadFrom(
             [b EXCEPT !.readIndex = U32(b.readIndex + 1) % b.size],
             [out EXCEPT ![i + 1] = b.buffer[b.readIndex]],
             i + 1, toRead, frames)
    ELSE IF i < frames
    THEN EngramRingBuffer_ReadFrom(b, [out EXCEPT ![i + 1] = 0], i + 1, toRead, frames)
    ELSE [rb |-> b, out |-> out]

EngramRingBuffer_Read(b, frames) ==
    LET available == EngramRingBuffer_GetAvailableRead(b)
        toRead    == IF frames < available THEN frames ELSE available
        done      == EngramRingBuffer_ReadFrom(b, Fresh(frames), 0, toRead, frames)
    IN  [ rb |-> done.rb, out |-> done.out, ret |-> toRead ]

\* The state EngramPlugIn_Create leaves.
EngramPlugIn_Create ==
    /\ rb = EngramRingBuffer_Init(Size)
    /\ dev = [ isRunning      |-> FALSE,
               anchorHostTime |-> 0,
               channels       |-> kEngramChannels,
               stateLock      |-> "none" ]
    /\ gRefCount = 1

\* A call of the Engram variant as a step: what the call decides of the
\* buffer, the device, the caller's region and the return value.
Engram_Write(frames) ==
    LET res == EngramRingBuffer_Write(rb, NextData(frames), frames)
    IN  /\ rb' = res.rb
        /\ last'.ret = res.ret
        /\ dev' = dev

Engram_Read(frames) ==
    LET res == EngramRingBuffer_Read(rb, frames)
    IN  /\ rb' = res.rb
        /\ last'.out = res.out
        /\ last'.ret = res.ret
        /\ dev' = dev

EngramDevice_StartIO(clientID) ==
    /\ dev' = [ isRunning      |-> TRUE,
                anchorHostTime |-> mach_absolute_time,
                channels       |-> dev.channels,
                stateLock      |-> dev.stateLock ]
    /\ host'.status = "kAudioHardwareNoError"
    /\ rb' = rb

EngramDevice_StopIO(clientID) ==
    /\ dev' = [ isRunning      |-> FALSE,
                anchorHostTime |-> dev.anchorHostTime,
                channels       |-> dev.channels,
                stateLock      |-> dev.stateLock ]
    /\ host'.status = "kAudioHardwareNoError"
    /\ rb' = rb

EngramDevice_GetZeroTimeStamp ==
    /\ zts'.sampleTime = 0
    /\ zts'.hostTime = dev.anchorHostTime
    /\ zts'.seed = 1
    /\ zts'.status = "kAudioHardwareNoError"
    /\ rb' = rb
    /\ dev' = dev

EngramDevice_DoIOOperation(operationID, ioBufferFrameSize) ==
    IF operationID = "ReadInput"
    THEN Engram_Read(U32(ioBufferFrameSize * dev.channels))
    ELSE /\ cons'.status = "kAudioHardwareNoError"
         /\ rb' = rb
         /\ dev' = dev
         /\ last' = last

\* The Echo variant one whole call at a time, with the host clock.
VariantNext ==
    \/ \E frames \in {Size - 1, MaxFrames} : Write(frames)
    \/ \E frames \in {0, Size - 2} : Read(frames)
    \/ StartIO(MaxClient)
    \/ StopIO(MaxClient)
    \/ GetZeroTimeStamp
    \/ \E op \in {"ReadInput", "WriteMix"} : IOThread_DoIOOperation(op, MaxIOFrames)
    \/ Tick

VariantSpec == Init /\ [][VariantNext]_vars

\* ------------------------------------- RefSpec: the interface's references
\* RingBuffer_Destroy: free the storage when there is one and clear the
\* pointer, then pthread_mutex_destroy.
RingBuffer_Destroy(b) ==
    [b EXCEPT !.buffer = IF b.buffer # NULL THEN NULL ELSE b.buffer,
              !.lock = "destroyed"]

InterfaceIDs == {"IUnknownUUID", "kAudioServerPlugInDriverInterfaceUUID", "other"}

RefInit ==
    /\ PlugIn_Create
    /\ clock = 0
    /\ prod = [pc |-> "idle"]
    /\ cons = [pc |-> "idle"]
    /\ host = [pc |-> "idle"]
    /\ zts = [called |-> FALSE]
    /\ nextSample = 1
    /\ pending = <<>>
    \* history: destroys counts the runs of RingBuffer_Destroy
    /\ hist = [passed |-> <<>>, returned |-> <<>>, sumWrite |-> 0, sumRead |-> 0,
               clean |-> TRUE, calls |-> 0, destroys |-> 0]
    /\ last = NoCall
    /\ prev = NoCall
    /\ active = [clients |-> {}, matched |-> TRUE]
    /\ captured = -1

\* PlugIn_AddRef: return ++gRefCount
PlugIn_AddRef ==
    /\ hist.calls < MaxCalls
    /\ host.pc = "idle"
    /\ gRefCount' = U32(gRefCount + 1)
    /\ host' = [pc |-> "idle", returned |-> "AddRef", result |-> U32(gRefCount + 1)]
    /\ hist' = [hist EXCEPT !.calls = @ + 1]
    /\ UNCHANGED <<rb, dev, clock, prod, cons, zts, active, captured, nextSample,
                   pending, last, prev>>

\* PlugIn_QueryInterface: for the two interface IDs, *ppv = driver, AddRef and
\* S_OK; for any other, *ppv = NULL and E_NOINTERFACE.
PlugIn_QueryInterface(iid) ==
    /\ hist.calls < MaxCalls
    /\ host.pc = "idle"
    /\ IF iid \in {"IUnknownUUID", "kAudioServerPlugInDriverInterfaceUUID"}
       THEN /\ gRefCount' = U32(gRefCount + 1)
            /\ host' = [pc |-> "idle", returned |-> "QueryInterface",
                        ppv |-> "driver", result |-> "S_OK"]
       ELSE /\ gRefCount' = gRefCount
            /\ host' = [pc |-> "idle", returned |-> "QueryInterface",
                        ppv |-> "NULL", result |-> "E_NOINTERFACE"]
    /\ hist' = [hist EXCEPT !.calls = @ + 1]
    /\ UNCHANGED <<rb, dev, clock, prod, cons, zts, active, captured, nextSample,
                   pending, last, prev>>

\* PlugIn_Release: refCount = --gRefCount, in UInt32; at 0 RingBuffer_Destroy
\* and pthread_mutex_destroy(&gDevice.stateLock); return refCount.
PlugIn_Release ==
    /\ hist.calls < MaxCalls
    /\ host.pc = "idle"
    /\ LET refCount == U32(gRefCount - 1)
       IN  /\ gRefCount' = refCount
           /\ IF refCount = 0
              THEN /\ rb' = RingBuffer_Destroy(rb)
                   /\ dev' = [dev EXCEPT !.stateLock = "destroyed"]
                   /\ hist' = [hist EXCEPT !.calls = @ + 1, !.destroys = @ + 1]
              ELSE /\ hist' = [hist EXCEPT !.calls = @ + 1]
                   /\ UNCHANGED <<rb, dev>>
           /\ host' = [pc |-> "idle", returned |-> "Release", result |-> refCount]
    /\ UNCHANGED <<clock, prod, cons, zts, active, captured, nextSample, pending,
                   last, prev>>

\* The host's reference calls among uses of the device.  A write, a read or
\* StartIO first locks a mutex, so the model takes none once the mutexes are
\* destroyed.
RefNext ==
    \/ \E iid \in InterfaceIDs : PlugIn_QueryInterface(iid)
    \/ PlugIn_AddRef
    \/ PlugIn_Release
    \/ Inject(Size - 1)
    \/ StartIO(1)

RefSpec == RefInit /\ [][RefNext]_vars

\* --------------------- StreamSpec: the two threads with the sample streams
\* Producer and consumer step by step as in Spec, the producer passing fresh
\* samples in every call.  History: hist.accepted is every sample a write loop
\* has stored, hist.delivered every sample a copy loop has put in the caller's
\* region, both in order.
StreamInit ==
    /\ PlugIn_Create
    /\ clock = 0
    /\ prod = [pc |-> "idle"]
    /\ cons = [pc |-> "idle"]
    /\ host = [pc |-> "idle"]
    /\ zts = [called |-> FALSE]
    /\ nextSample = 1
    /\ pending = <<>>
    /\ hist = [accepted |-> <<>>, delivered |-> <<>>]
    /\ last = NoCall
    /\ prev = NoCall
    /\ active = [clients |-> {}, matched |-> TRUE]
    /\ captured = -1

\* The producer calls while fewer than MaxAccepted samples were accepted.
Stream_Write_Call(frames) ==
    /\ Len(hist.accepted) < MaxAccepted
    /\ Write_Call(frames, Tag(nextSample, frames))

Stream_Write_Loop ==
    /\ Write_Store
    /\ hist' = [hist EXCEPT !.accepted = Append(@, prod.data[prod.i + 1])]
    /\ UNCHANGED <<pending, last, prev>>

Stream_Read_Loop ==
    /\ Read_Copy
    /\ hist' = [hist EXCEPT !.delivered = Append(@, cons'.out[cons.i + 1])]
    /\ UNCHANGED <<pending, last, prev>>

StreamNext ==
    \/ \E frames \in {Size - 2, MaxFrames} : Stream_Write_Call(frames)
    \/ Write_Lock
    \/ Write_Available
    \/ Stream_Write_Loop
    \/ Write_Unlock
    \/ Write_Return
    \/ \E frames \in {1, Size} : Read_Call(frames)
    \/ Read_Lock
    \/ Read_Available
    \/ Stream_Read_Loop
    \/ Read_LoopExit
    \/ Read_ZeroFill
    \/ Read_Unlock
    \/ Read_Return

StreamSpec == StreamInit /\ [][StreamNext]_vars

\* ------------------- PollSpec: the unlocked occupancy calls, load by load
\* RingBuffer_GetAvailableWrite and RingBuffer_GetAvailableRead take no lock:
\* w = rb->writeIndex and r = rb->readIndex are two plain loads that race
\* with the other thread's stores.  Each load is a step of its own and yields
\* the cursor as it is at that step; the two loads happen in either order,
\* as the build may reorder them.  -1 marks a cursor not loaded yet.
Snapshot(w, r) == [rb EXCEPT !.writeIndex = w, !.readIndex = r]

\* The producer calls RingBuffer_GetAvailableWrite.
GetAvailableWrite_Call ==
    /\ prod.pc = "idle"
    /\ prod' = [pc |-> "poll", w |-> -1, r |-> -1]
    /\ UNCHANGED <<rb, cons, host, device, nextSample, pending, history, gRefCount>>

GetAvailableWrite_LoadWriteIndex ==
    /\ prod.pc = "poll"
    /\ prod.w = -1
    /\ prod' = [prod EXCEPT !.w = rb.writeIndex]
    /\ UNCHANGED <<rb, cons, host, device, nextSample, pending, history, gRefCount>>

GetAvailableWrite_LoadReadIndex ==
    /\ prod.pc = "poll"
    /\ prod.r = -1
    /\ prod' = [prod EXCEPT !.r = rb.readIndex]
    /\ UNCHANGED <<rb, cons, host, device, nextSample, pending, history, gRefCount>>

\* Mutant: the free space is returned without the slot that is kept empty.
GetAvailableWrite_Return_NoSpare ==
    /\ prod.pc = "poll"
    /\ prod.w # -1
    /\ prod.r # -1
    /\ prod' = [pc |-> "idle",
                polled |-> RingBuffer_GetAvailableWrite(Snapshot(prod.w, prod.r)) + 1]
    /\ UNCHANGED <<rb, cons, host, device, nextSample, pending, history, gRefCount>>

\* return rb->size - GetAvailableRead(rb) - 1, of the two values loaded
GetAvailableWrite_Return ==
    /\ prod.pc = "poll"
    /\ prod.w # -1
    /\ prod.r # -1
    /\ prod' = [pc |-> "idle",
                polled |-> RingBuffer_GetAvailableWrite(Snapshot(prod.w, prod.r))]
    /\ UNCHANGED <<rb, cons, host, device, nextSample, pending, history, gRefCount>>

\* The consumer calls RingBuffer_GetAvailableRead.
GetAvailableRead_Call ==
    /\ cons.pc = "idle"
    /\ cons' = [pc |-> "poll", w |-> -1, r |-> -1]
    /\ UNCHANGED <<rb, prod, host, device, nextSample, pending, history, gRefCount>>

GetAvailableRead_LoadWriteIndex ==
    /\ cons.pc = "poll"
    /\ cons.w = -1
    /\ cons' = [cons EXCEPT !.w = rb.writeIndex]
    /\ UNCHANGED <<rb, prod, host, device, nextSample, pending, history, gRefCount>>

GetAvailableRead_LoadReadIndex ==
    /\ cons.pc = "poll"
    /\ cons.r = -1
    /\ cons' = [cons EXCEPT !.r = rb.readIndex]
    /\ UNCHANGED <<rb, prod, host, device, nextSample, pending, history, gRefCount>>

\* return (w >= r) ? (w - r) : (rb->size - r + w), of the two values loaded
GetAvailableRead_Return ==
    /\ cons.pc = "poll"
    /\ cons.w # -1
    /\ cons.r # -1
    /\ cons' = [pc |-> "idle",
                polled |-> RingBuffer_GetAvailableRead(Snapshot(cons.w, cons.r))]
    /\ UNCHANGED <<rb, prod, host, device, nextSample, pending, history, gRefCount>>

\* The producer's next write, of any count.  History: whether the producer
\* had polled and the count is within the value it got.
Polled_Write_Call(frames) ==
    /\ Write_Begin(frames, nextSample)
    /\ hist' = [hist EXCEPT !.writeWithin =
                    "polled" \in DOMAIN prod /\ frames <= prod.polled]
    /\ UNCHANGED <<pending, last, prev>>

\* The consumer's next read, of any count.  History: whether the consumer had
\* polled and the count is within the value it got.
Polled_Read_Call(frames) ==
    /\ Read_Begin(frames)
    /\ hist' = [hist EXCEPT !.readWithin =
                    "polled" \in DOMAIN cons /\ frames <= cons.polled]
    /\ UNCHANGED <<pending, last, prev>>

PollInit ==
    /\ PlugIn_Create
    /\ clock = 0
    /\ prod = [pc |-> "idle"]
    /\ cons = [pc |-> "idle"]
    /\ host = [pc |-> "idle"]
    /\ zts = [called |-> FALSE]
    /\ nextSample = 1
    /\ pending = <<>>
    /\ hist = [writeWithin |-> FALSE, readWithin |-> FALSE]
    /\ last = NoCall
    /\ prev = NoCall
    /\ active = [clients |-> {}, matched |-> TRUE]
    /\ captured = -1

PollNext ==
    \/ GetAvailableWrite_Call
    \/ GetAvailableWrite_LoadWriteIndex
    \/ GetAvailableWrite_LoadReadIndex
    \/ GetAvailableWrite_Return
    \/ \E frames \in {1, Size - 2, Size - 1, MaxFrames} : Polled_Write_Call(frames)
    \/ ProducerStep
    \/ GetAvailableRead_Call
    \/ GetAvailableRead_LoadWriteIndex
    \/ GetAvailableRead_LoadReadIndex
    \/ GetAvailableRead_Return
    \/ \E frames \in {1, Size - 2, Size - 1, MaxFrames} : Polled_Read_Call(frames)
    \/ ConsumerStep

PollSpec == PollInit /\ [][PollNext]_vars

\* ------------------------------------------------- claims under SeqSpec
\* The buffered samples, oldest first, as the cursors delimit them.
Contents(b) ==
    [k \in 1 .. RingBuffer_GetAvailableRead(b) |->
        b.buffer[(b.readIndex + k - 1) % b.size]]

\* The slots that hold a sample not yet read.
UnreadSlots(b) ==
    {(b.readIndex + k - 1) % b.size : k \in 1 .. RingBuffer_GetAvailableRead(b)}

\* C1: in a history with no truncated write and no underrunning read, what
\* the reads returned is, in order, a prefix of what the writes were passed,
\* and the read return values sum to the write return values minus the
\* current occupancy.
C1_CleanHistoryIsFifo ==
    hist.clean =>
        /\ IsPrefix(hist.returned, hist.passed)
        /\ hist.sumRead = hist.sumWrite - RingBuffer_GetAvailableRead(rb)

\* C1 witness: a clean history that has read more samples than the storage
\* has slots (so both cursors wrapped) and still holds samples.
C1_Witness ==
    ( /\ hist.clean
        /\ Len(hist.returned) > rb.size
        /\ hist.sumRead < hist.sumWrite )

\* C2: a read of count returns min(count, occupied); the first returned
\* output positions hold the oldest buffered samples in write order, every
\* later position up to count holds 0, and all count positions are defined.
C2_ReadReturnsOldestThenZeros ==
    last.op = "read" =>
        /\ last.ret = Min(last.frames, RingBuffer_GetAvailableRead(last.pre))
        /\ RingBuffer_GetAvailableRead(last.pre) = Len(last.pendingPre)
        /\ DOMAIN last.out = 1 .. last.frames
        /\ \A k \in 1 .. last.ret : last.out[k] = last.pendingPre[k]
        /\ \A k \in last.ret + 1 .. last.frames : last.out[k] = 0

\* C2 witness: an underrunning read of a non-empty buffer whose samples lie
\* across the end of storage.
C2_Witness ==
    ( /\ last.op = "read"
        /\ 0 < last.ret
        /\ last.ret < last.frames
        /\ last.pre.readIndex + last.ret > last.pre.size )

\* C3: a write of count returns min(count, free) with free = capacity -
\* occupied - 1; the first min(count, free) samples are appended in order, the
\* others are dropped, and no slot holding an unread sample is overwritten.
C3_WriteAppendsWhatFits ==
    last.op = "write" =>
        LET occupied == RingBuffer_GetAvailableRead(last.pre)
            free     == last.pre.size - occupied - 1
        IN  /\ last.ret = Min(last.frames, free)
            /\ Contents(rb) = Contents(last.pre) \o SubSeq(last.data, 1, last.ret)
            /\ Contents(last.pre) = last.pendingPre
            /\ rb.readIndex = last.pre.readIndex
            /\ \A k \in UnreadSlots(last.pre) : rb.buffer[k] = last.pre.buffer[k]

\* C3 witness: a truncated write into a non-empty buffer that accepts some
\* samples and wraps past the end of storage.
C3_Witness ==
    ( /\ last.op = "write"
        /\ 0 < last.ret
        /\ last.ret < last.frames
        /\ Len(last.pendingPre) > 0
        /\ last.pre.writeIndex + last.ret > last.pre.size )

\* C6: the usable capacity is capacity - 1: a write of capacity - 1 samples
\* into an empty buffer is accepted in full, a write with no free slot returns
\* 0 and changes neither cursor nor storage, and no call returns more than
\* capacity - 1.
C6_UsableCapacity ==
    /\ Len(pending) <= rb.size - 1
    /\ last.op # "none" => last.ret <= rb.size - 1
    /\ last.op = "write" =>
        /\ (Len(last.pendingPre) = 0 /\ last.frames = last.pre.size - 1)
               => last.ret = last.pre.size - 1
        /\ Len(last.pendingPre) = last.pre.size - 1
               => (last.ret = 0 /\ rb = last.pre)

\* C6 witness: a write of at least one sample issued while capacity - 1
\* samples are buffered and the cursors have wrapped.
C6_Witness ==
    ( /\ last.op = "write"
        /\ last.frames > 0
        /\ Len(last.pendingPre) = last.pre.size - 1
        /\ last.pre.writeIndex < last.pre.readIndex )

\* C7: round trip.  Writing a pattern of length L <= capacity - 1 into an
\* empty buffer, wherever its cursors stand, and then reading L samples
\* returns L from both calls, yields the pattern in order and leaves the
\* buffer empty.
C7_RoundTrip ==
    ( /\ last.op = "read"
      /\ prev.op = "write"
      /\ Len(prev.pendingPre) = 0
      /\ prev.frames <= prev.pre.size - 1
      /\ last.frames = prev.frames )
    =>
        /\ prev.ret = prev.frames
        /\ last.ret = prev.frames
        /\ last.out = prev.data
        /\ RingBuffer_GetAvailableRead(rb) = 0
        /\ rb.readIndex = rb.writeIndex

\* C7 witness: a round trip of capacity - 1 samples that starts at a cursor
\* position other than 0 and wraps.
C7_Witness ==
    ( /\ last.op = "read"
        /\ prev.op = "write"
        /\ Len(prev.pendingPre) = 0
        /\ prev.frames = prev.pre.size - 1
        /\ last.frames = prev.frames
        /\ prev.pre.writeIndex > 1 )

\* --------------------------------------------------- claims under Spec
\* C4: with a producer and a consumer interleaved step by step, both cursors
\* stay inside the storage and the occupancy never exceeds capacity - 1.
C4_CursorsInRange ==
    /\ rb.readIndex \in 0 .. rb.size - 1
    /\ rb.writeIndex \in 0 .. rb.size - 1
    /\ RingBuffer_GetAvailableRead(rb) <= rb.size - 1

\* C4 witness: the producer is inside its copy loop, past the end of storage,
\* while the consumer waits for the mutex.
C4_Witness ==
    /\ prod.pc = "loop"
    /\ prod.i > 0
    /\ rb.writeIndex < rb.readIndex
    /\ cons.pc = "lock"

\* ----------------------------------------------- claims under WeakSpec
\* Every call of every thread returns.
EveryCallReturns ==
    /\ (prod.pc # "idle") ~> (prod.pc = "idle")
    /\ (cons.pc # "idle") ~> (cons.pc = "idle")
    /\ (host.pc # "idle") ~> (host.pc = "idle")

\* A thread inside a call can take its next step unless it is waiting for a
\* mutex that another thread holds: nothing else is waited for, in
\* particular neither free space nor data.
OnlyMutexBlocks ==
    /\ (prod.pc # "idle" /\ ~ (prod.pc = "lock" /\ rb.lock # "none"))
           => ENABLED ProducerStep
    /\ (cons.pc # "idle" /\ ~ (cons.pc = "lock" /\ rb.lock # "none"))
           => ENABLED ConsumerStep
    /\ (host.pc # "idle" /\ ~ (host.pc \in {"start_lock", "stop_lock"} /\ dev.stateLock # "none"))
           => ENABLED HostStep

\* A mutex is held only by a thread that is inside its critical section.
HolderIsInside ==
    /\ rb.lock = "producer" <=> prod.pc \in {"avail", "loop"}
    /\ rb.lock = "consumer" <=> cons.pc \in {"avail", "copy", "zero"}
    /\ dev.stateLock = "host" <=>
           host.pc \in {"start_run", "start_anchor", "start_unlock", "stop_run", "stop_unlock"}

\* C5 as claimed: under weak fairness of each thread's steps alone, every
\* call returns.
C5_ReturnsUnderWeakFairness == EveryCallReturns

\* C5 as amended: if moreover a thread that finds the buffer mutex free again
\* and again obtains it (strong fairness of the two lock steps), every call
\* returns; a call waits for nothing but a mutex, and a mutex is held only
\* inside a critical section, so no state is a deadlock.
C5_ReturnsUnderFairMutex ==
    /\ [](OnlyMutexBlocks /\ HolderIsInside)
    /\ (SF_vars(Write_Lock) /\ SF_vars(Read_Lock)) => EveryCallReturns

\* C5 witness: a write of a full buffer has returned 0 while the consumer is
\* outside any read and the host holds the state lock inside StartIO.
C5_Witness ==
    /\ prod.pc = "ret"
    /\ prod.frames > 0
    /\ prod.ret = 0
    /\ cons.pc = "idle"
    /\ host.pc = "start_anchor"

\* ------------------------------------------------ claims under DevSpec
StartIOPcs == {"start_lock", "start_run", "start_anchor", "start_unlock", "start_ret"}

\* C8: once a StartIO has returned, a GetZeroTimeStamp call made before the
\* next StartIO begins returns as hostTime the clock value that StartIO read.
C8_ZeroTimeStampIsAnchor ==
    [][ (GetZeroTimeStamp /\ captured >= 0 /\ host.pc \notin StartIOPcs)
            => zts'.hostTime = captured ]_vars

\* C8 witness: a GetZeroTimeStamp made while Stopped has returned the value a
\* StartIO read, the clock has moved on since and the buffer holds samples.
C8_Witness ==
    /\ zts.called
    /\ zts.stopped
    /\ captured > 0
    /\ zts.hostTime = captured
    /\ clock > captured
    /\ rb.writeIndex # rb.readIndex
    /\ host.pc = "idle"

\* C9: the lifecycle has two states.  isRunning is false until the first
\* call; when StartIO returns the device is Running and when StopIO returns
\* it is Stopped, whatever the state at the call; a StartIO made while
\* Running succeeds, never leaves Running and leaves in anchorHostTime a
\* clock value read during the call.
C9_TwoStateLifecycle ==
    /\ host = [pc |-> "idle"] => ~ dev.isRunning
    /\ (host.pc = "idle" /\ host # [pc |-> "idle"]) =>
           /\ host.status = "kAudioHardwareNoError"
           /\ dev.isRunning <=> host.returned = "StartIO"
    /\ host.pc = "start_ret" =>
           /\ dev.isRunning
           /\ dev.anchorHostTime = captured
           /\ host.called <= dev.anchorHostTime
           /\ dev.anchorHostTime <= clock
    /\ host.pc = "stop_ret" => ~ dev.isRunning
    /\ (host.pc \in StartIOPcs /\ host.from) => dev.isRunning

\* C9 witness: a StartIO made while Running is about to return with an
\* anchor later than the one it found.
C9_Witness ==
    /\ host.pc = "start_ret"
    /\ host.from
    /\ dev.anchorHostTime > host.old
    /\ host.old > 0

\* C10: for every client, from the return of its StartIO to the call of its
\* StopIO, isRunning is true, whatever other clients start or stop (each of
\* them stopping only what it started).
C10_RunningWhileAClientIsActive ==
    (active.matched /\ active.clients # {}) => dev.isRunning

\* ----------------------------------------------- claims under CallSpec
\* C11: every read-input DoIOOperation of n frames defines all n * channels
\* positions of the output region, whether the device is Running or Stopped
\* and whatever the occupancy: the oldest buffered samples in order, then
\* zeros, exactly the region RingBuffer_Read(n * channels) produces.
C11_PullFillsTheRegion ==
    [][ \A n \in 0 .. MaxIOFrames :
          IOCycle("ReadInput", n) =>
            LET count == n * dev.channels
                held  == Contents(rb)
                out   == last'.out
            IN  /\ DOMAIN out = 1 .. count
                /\ \A k \in 1 .. count :
                       out[k] = IF k <= Len(held) THEN held[k] ELSE 0
                /\ out = RingBuffer_Read(rb, count).out
                /\ last'.ret = Min(count, Len(held))
                /\ dev' = dev ]_vars

\* C11 witness: a pull cycle of a Stopped device, started and stopped before,
\* has found fewer samples than it asked for and delivered them before zeros.
C11_Witness ==
    /\ last.op = "read"
    /\ prev.op = "stop"
    /\ prev.from
    /\ ~ dev.isRunning
    /\ 0 < last.ret
    /\ last.ret < last.frames
    /\ last.out[last.frames] = 0

\* C12: StopIO flushes nothing.  StopIO and StartIO leave readIndex,
\* writeIndex and the storage as they were, and after StopIO, StartIO with no
\* pull cycle in between, the next pull cycle delivers first, in order, the
\* samples that were buffered before the stop.
C12_StopKeepsTheBuffer ==
    /\ [][ (\E c \in 1 .. MaxClient : StopIO(c) \/ StartIO(c)) =>
               /\ rb'.readIndex = rb.readIndex
               /\ rb'.writeIndex = rb.writeIndex
               /\ rb'.buffer = rb.buffer ]_vars
    /\ [] ( (last.op = "read" /\ prev.op = "start" /\ prev.before.op = "stop") =>
               LET held == Contents(prev.before.pre)
               IN  /\ last.ret = Min(last.frames, Len(held))
                   /\ \A k \in 1 .. last.ret : last.out[k] = held[k] )

\* C12 witness: a pull cycle after StopIO, StartIO has delivered the sample
\* that was buffered before the stop, and zeros after it.
C12_Witness ==
    /\ last.op = "read"
    /\ prev.op = "start"
    /\ prev.before.op = "stop"
    /\ last.ret > 0
    /\ last.ret < last.frames
    /\ last.out[1] = Contents(prev.before.pre)[1]

\* C14: injection is accepted at any time.  The return value, the cursors
\* and the storage after a write are determined by the buffer and the samples
\* passed alone, the same whether the device is Running or Stopped, and the
\* samples written while Stopped are the first a pull cycle delivers after a
\* later StartIO.
C14_InjectionIgnoresState ==
    /\ [][ \A frames \in 0 .. MaxFrames :
             Inject(frames) =>
               LET data == NextData(frames)
                   free == rb.size - Len(Contents(rb)) - 1
                   n    == Min(frames, free)
               IN  /\ last'.ret = n
                   /\ rb' = RingBuffer_Write(rb, data, frames).rb
                   /\ Contents(rb') = Contents(rb) \o SubSeq(data, 1, n)
                   /\ rb'.readIndex = rb.readIndex
                   /\ rb'.writeIndex = (rb.writeIndex + n) % rb.size ]_vars
    /\ [] ( ( /\ last.op = "read"
              /\ prev.op = "start"
              /\ ~ prev.from
              /\ prev.before.op = "write" ) =>
               LET held == Contents(prev.pre)
               IN  /\ last.ret = Min(last.frames, Len(held))
                   /\ \A k \in 1 .. last.ret : last.out[k] = held[k] )

\* C14 witness: samples written into an empty buffer while the device was
\* Stopped have been delivered by the pull cycle after the next StartIO.
C14_Witness ==
    /\ last.op = "read"
    /\ prev.op = "start"
    /\ ~ prev.from
    /\ prev.before.op = "write"
    /\ Len(Contents(prev.before.pre)) = 0
    /\ Len(Contents(prev.pre)) > 0
    /\ last.ret > 0
    /\ last.out[1] = Contents(prev.pre)[1]

\* ------------------------------------- further claims under DevSpec
\* C13: GetZeroTimeStamp, in any state, returns success with sampleTime 0,
\* seed 1 and hostTime the anchor of the moment (0 as long as no StartIO has
\* stored one), whatever pull cycles have run, and changes neither the
\* device nor the buffer.
C13_ZeroTimeStampIsConstant ==
    [][ GetZeroTimeStamp =>
          /\ zts'.sampleTime = 0
          /\ zts'.seed = 1
          /\ zts'.hostTime = dev.anchorHostTime
          /\ (captured = -1 => zts'.hostTime = 0)
          /\ zts'.status = "kAudioHardwareNoError"
          /\ dev' = dev
          /\ rb' = rb
          /\ host' = host ]_vars

\* C13 witness: a GetZeroTimeStamp made while Running, after a pull cycle has
\* moved the read cursor, has returned a later anchor than the initial 0.
C13_Witness ==
    /\ zts.called
    /\ ~ zts.stopped
    /\ zts.sampleTime = 0
    /\ zts.hostTime > 0
    /\ rb.readIndex # 0
    /\ dev.isRunning

\* ---------------------------------------------- claims under CreateSpec
\* C15: when the allocation of the storage fails, device creation fails: the
\* plug-in's creation or initialisation reports it, and the host is handed no
\* device whose ring buffer has NULL storage.
C15_AllocationFailureIsFatal ==
    /\ (host.returned = "Initialize" /\ rb.buffer = NULL)
           => host.status # "kAudioHardwareNoError"
    /\ host.returned = "CreateDevice" => rb.buffer # NULL
    /\ host.pc # "crashed"

\* --------------------------------------------- claims under ExampleSpec
\* The first four calls are those of the worked example.
C16_Inputs ==
    /\ Len(hist.log) >= 4
    /\ hist.log[1].op = "write"
    /\ hist.log[1].data = <<1, 2, 3, 4, 5, 6, 7>>
    /\ hist.log[2].op = "read"
    /\ hist.log[2].frames = 4
    /\ hist.log[3].op = "write"
    /\ hist.log[3].data = <<8, 9, 10>>
    /\ hist.log[4].op = "read"
    /\ hist.log[4].frames = 10

\* C16: on an empty buffer of capacity 8, write [1..7] returns 7; read 4
\* returns 4 and [1,2,3,4]; write [8,9,10] finds 4 free, returns 3 and takes
\* writeIndex from 7 round to 2; read 10 returns 6 and
\* [5,6,7,8,9,10,0,0,0,0]; the buffer is then empty.
C16_WraparoundExample ==
    C16_Inputs =>
        /\ hist.log[1].ret = 7
        /\ hist.log[2].ret = 4
        /\ hist.log[2].out = <<1, 2, 3, 4>>
        /\ RingBuffer_GetAvailableWrite(hist.log[3].pre) = 4
        /\ hist.log[3].ret = 3
        /\ hist.log[3].pre.writeIndex = 7
        /\ hist.log[3].post.writeIndex = 2
        /\ hist.log[4].ret = 6
        /\ hist.log[4].out = <<5, 6, 7, 8, 9, 10, 0, 0, 0, 0>>
        /\ RingBuffer_GetAvailableRead(hist.log[4].post) = 0
        /\ hist.log[4].post.readIndex = hist.log[4].post.writeIndex

\* C16 witness: the four calls of the example have been made.
C16_Witness ==
    /\ C16_Inputs
    /\ Len(hist.log) = 4
    /\ rb = hist.log[4].post

\* ------------------------------------- further claims under SeqSpec
\* C17: a write or a read of count 0 returns 0 and leaves readIndex,
\* writeIndex and every storage slot as they were, and a read of count 0
\* has no output position to write, whatever the buffer holds.
C17_ZeroCountIsNoOp ==
    (last.op # "none" /\ last.frames = 0) =>
        /\ last.ret = 0
        /\ rb.readIndex = last.pre.readIndex
        /\ rb.writeIndex = last.pre.writeIndex
        /\ rb.buffer = last.pre.buffer
        /\ rb = last.pre
        /\ pending = last.pendingPre
        /\ last.op = "read" => last.out = <<>>

\* C17 witness: a write of 0 and then a read of 0 have been made on a buffer
\* that holds samples and whose cursors have both moved.
C17_Witness ==
    /\ last.op = "read"
    /\ last.frames = 0
    /\ prev.op = "write"
    /\ prev.frames = 0
    /\ Len(Contents(last.pre)) > 0
    /\ last.pre.readIndex > 0
    /\ prev.pre = last.pre

\* -------------------------------------------- claims under PropertySpec
\* C18: every attempt to set a property is rejected.  SetPropertyData
\* returns the unsupported-operation error for every object and selector and
\* changes neither device, lifecycle nor buffer; IsPropertySettable reports
\* false for every property.
C18_NothingIsSettable ==
    [][ \A o \in ObjectIDs, s \in Selectors :
          /\ SetPropertyData(o, s) =>
               /\ host'.status = "kAudioHardwareUnsupportedOperationError"
               /\ rb' = rb
               /\ dev' = dev
               /\ <<clock, zts, active, captured, pending>>' =
                      <<clock, zts, active, captured, pending>>
          /\ IsPropertySettable(o, s) =>
               /\ host'.outIsSettable = FALSE
               /\ host'.status = "kAudioHardwareNoError"
               /\ rb' = rb
               /\ dev' = dev ]_vars

\* C18 witness: setting the nominal sample rate of the device has been
\* refused while the device is Running and the buffer holds samples.
C18_Witness ==
    /\ "returned" \in DOMAIN host
    /\ host.returned = "SetPropertyData"
    /\ host.objectID = 1000
    /\ host.mSelector = "kAudioDevicePropertyNominalSampleRate"
    /\ host.status = "kAudioHardwareUnsupportedOperationError"
    /\ dev.isRunning
    /\ rb.readIndex # rb.writeIndex
    /\ rb.readIndex > 0

C20_LocksAreIndependent ==
    /\ [] ( /\ rb.lock \in {"none", "producer", "consumer"}
            /\ dev.stateLock \in {"none", "host"} )
    /\ [] ( dev.stateLock = "host" =>
              /\ (prod.pc # "idle" /\ ~ (prod.pc = "lock" /\ rb.lock = "consumer"))
                     => ENABLED ProducerStep
              /\ (cons.pc # "idle" /\ ~ (cons.pc = "lock" /\ rb.lock = "producer"))
                     => ENABLED ConsumerStep )
    /\ [][ /\ HostStep => (rb' = rb /\ prod' = prod /\ cons' = cons)
           /\ (ProducerStep \/ ConsumerStep) => (dev' = dev /\ host' = host) ]_vars

\* C20 witness: a pull cycle has delivered samples and is returning, and the
\* producer is inside its copy loop, while the control thread holds the
\* state mutex in the middle of StopIO.
C20_Witness ==
    /\ host.pc = "stop_run"
    /\ dev.stateLock = "host"
    /\ cons.pc = "ret"
    /\ cons.ret > 0
    /\ prod.pc = "loop"
    /\ prod.i > 0
    /\ rb.lock = "producer"

\* -------------------------------------------- claims under AnySizeSpec
\* C21: after Init with a capacity of 1 at least and after any completed
\* writes and reads, both cursors are in 0 .. capacity - 1, GetAvailableRead
\* is (writeIndex - readIndex) mod capacity, GetAvailableWrite is
\* capacity - GetAvailableRead - 1 and that difference is not negative, the
\* two sum to capacity - 1, and no call changes the capacity.
C21_CursorArithmetic ==
    /\ [] ( /\ rb.size >= 1
            /\ rb.readIndex \in 0 .. rb.size - 1
            /\ rb.writeIndex \in 0 .. rb.size - 1
            /\ RingBuffer_GetAvailableRead(rb) =
                   (rb.writeIndex - rb.readIndex) % rb.size
            /\ rb.size - RingBuffer_GetAvailableRead(rb) - 1 >= 0
            /\ RingBuffer_GetAvailableWrite(rb) =
                   rb.size - RingBuffer_GetAvailableRead(rb) - 1
            /\ RingBuffer_GetAvailableRead(rb) + RingBuffer_GetAvailableWrite(rb) =
                   rb.size - 1 )
    /\ [][rb'.size = rb.size]_vars

\* C21 witness: a buffer smaller than the largest, after a call, with the
\* write cursor wrapped round behind the read cursor.
C21_Witness ==
    /\ rb.size < Size
    /\ rb.writeIndex < rb.readIndex
    /\ last.op = "write"
    /\ last.ret > 0

\* -------------------------------------------------- claims under IOSpec
\* A step leaves the ring buffer, the device and the last output region as
\* they were.
C22_Untouched ==
    /\ rb' = rb
    /\ dev' = dev
    /\ last' = last
    /\ pending' = pending

\* C22: of the IO callbacks only DoIOOperation with the read-input operation
\* touches the ring buffer.  WillDoIOOperation, BeginIOOperation,
\* EndIOOperation and DoIOOperation with another operation leave cursors,
\* storage, isRunning, anchorHostTime and the output region unchanged and
\* return success, and WillDoIOOperation reports willDo exactly for the
\* read-input operation.
C22_OnlyReadInputTouchesTheBuffer ==
    [][ \A op \in IOOperations, n \in 0 .. MaxIOFrames :
          /\ WillDoIOOperation(op) =>
               /\ C22_Untouched
               /\ cons'.outWillDo = (op = "ReadInput")
               /\ cons'.status = "kAudioHardwareNoError"
          /\ BeginIOOperation(op, n) =>
               (C22_Untouched /\ cons'.status = "kAudioHardwareNoError")
          /\ EndIOOperation(op, n) =>
               (C22_Untouched /\ cons'.status = "kAudioHardwareNoError")
          /\ (op # "ReadInput" /\ IOThread_DoIOOperation(op, n)) =>
               (C22_Untouched /\ cons'.status = "kAudioHardwareNoError")
          /\ (cons' # cons) => C22_Untouched ]_vars

\* C22 witness: WillDoIOOperation has declined an operation other than
\* read-input while the device is Running, after a pull cycle that delivered
\* samples and left some in the buffer.
C22_Witness ==
    /\ "returned" \in DOMAIN cons
    /\ cons.returned = "WillDoIOOperation"
    /\ cons.operationID = "WriteMix"
    /\ cons.outWillDo = FALSE
    /\ dev.isRunning
    /\ last.op = "read"
    /\ last.ret > 0
    /\ rb.readIndex # rb.writeIndex

\* ------------------------------------------------- claims under VariantSpec
\* C23: the Echo and the Engram variant are equivalent on the core.  The two
\* start from the same state (what PlugIn_Create leaves is what
\* EngramPlugIn_Create leaves), and every call of the Echo variant, from the
\* state the two have reached, is a step of the same Engram call with the same
\* arguments and clock reading: the same return value, output samples,
\* cursors, storage, isRunning and anchorHostTime.  The Engram calls are
\* functions of the state and the arguments, so the two runs agree at every
\* step.
C23_SameCall ==
    /\ \A frames \in 0 .. MaxFrames : Write(frames) => Engram_Write(frames)
    /\ \A frames \in 0 .. MaxFrames : Read(frames) => Engram_Read(frames)
    /\ StartIO(MaxClient) => EngramDevice_StartIO(MaxClient)
    /\ StopIO(MaxClient) => EngramDevice_StopIO(MaxClient)
    /\ GetZeroTimeStamp => EngramDevice_GetZeroTimeStamp
    /\ \A op \in IOOperations :
           IOThread_DoIOOperation(op, MaxIOFrames)
               => EngramDevice_DoIOOperation(op, MaxIOFrames)

C23_VariantsAgree == EngramPlugIn_Create /\ [][C23_SameCall]_vars

\* A truncated write that wrapped the cursor, on a running device whose
\* anchor a GetZeroTimeStamp call has reported.
C23_Witness ==
    /\ last.op = "write"
    /\ last.ret > 0
    /\ last.ret < last.frames
    /\ rb.writeIndex < last.pre.writeIndex
    /\ prev.op = "read"
    /\ prev.ret > 0
    /\ dev.isRunning
    /\ dev.anchorHostTime > 0
    /\ zts.called
    /\ zts.hostTime = dev.anchorHostTime

\* ------------------------------------------------- claims under RefSpec
\* C24: the ring buffer lives exactly as long as the device is referenced.
\* After Create, whatever QueryInterface, AddRef and Release calls are made,
\* the storage is allocated in every state where the reference count is above
\* 0, RingBuffer_Destroy has run once a Release has returned 0, and it has
\* never run a second time.
C24_BufferLivesWhileReferenced ==
    /\ gRefCount > 0 => rb.buffer # NULL
    /\ ("returned" \in DOMAIN host /\ host.returned = "Release" /\ host.result = 0)
           => hist.destroys >= 1
    /\ hist.destroys <= 1

\* ------------------------------------------------- claims under StreamSpec
\* C25: under every interleaving of one producer and one consumer, truncated
\* writes and underrunning reads included, the real samples the reads have
\* handed out so far are a prefix of the samples the writes have accepted so
\* far (none twice, none out of order, none skipped), and accepted minus
\* delivered is the occupancy of the buffer.
C25_DeliveredIsPrefixOfAccepted ==
    /\ IsPrefix(hist.delivered, hist.accepted)
    /\ Len(hist.accepted) - Len(hist.delivered) = RingBuffer_GetAvailableRead(rb)

\* An underrunning read has returned after the cursors wrapped, a truncated
\* write has dropped samples (the accepted tags skip), and the producer is
\* inside its next call.
C25_Witness ==
    /\ cons.pc = "ret"
    /\ cons.ret > 0
    /\ cons.ret < cons.frames
    /\ Len(hist.delivered) > Size
    /\ \E k \in 1 .. Len(hist.accepted) - 1 :
           hist.accepted[k + 1] # Tag(hist.accepted[k], 1)
    /\ prod.pc = "loop"
    /\ prod.i > 0

\* ---------------------------------------- further claims under LiveSpec
\* The steps of StopIO on the control thread.
C26_StopIOStep ==
    \/ StopIO_Call(1)
    \/ StopIO_Lock
    \/ StopIO_ClearRunning
    \/ StopIO_Unlock
    \/ StopIO_Return

\* The buffer as the call that now holds its mutex found it: the cursor the
\* call has moved, n slots back.
C26_BeforeRead(n) ==
    [rb EXCEPT !.readIndex = (rb.readIndex + rb.size - n) % rb.size]

C26_BeforeWrite(n) ==
    [rb EXCEPT !.writeIndex = (rb.writeIndex + rb.size - n) % rb.size]

\* C26: a pull cycle is not gated by the lifecycle state.  Whatever isRunning
\* is and wherever the control thread is inside StartIO or StopIO, an idle IO
\* thread can issue DoIOOperation(read-input), which enters RingBuffer_Read
\* for ioBufferFrameSize * channels samples; the read, and a write, complete
\* with the return value, output and cursor of the whole call on the buffer
\* they locked; and no step of StopIO changes the buffer or the position or
\* the data of a read or write in flight.
C26_PullIsNotGated ==
    /\ [] ( cons.pc = "idle" =>
              ENABLED ( /\ DoIOOperation_Call("ReadInput", MaxIOFrames)
                        /\ cons'.pc = "lock"
                        /\ cons'.frames = MaxIOFrames * dev.channels ) )
    /\ [][ /\ Read_Unlock =>
                LET pre == C26_BeforeRead(cons.toRead)
                    res == RingBuffer_Read(pre, cons.frames)
                IN  /\ cons'.ret = res.ret
                    /\ cons'.out = res.out
                    /\ rb'.readIndex = res.rb.readIndex
                    /\ rb'.buffer = pre.buffer
           /\ Write_Unlock =>
                LET pre == C26_BeforeWrite(prod.toWrite)
                    res == RingBuffer_Write(pre, prod.data, prod.frames)
                IN  /\ prod'.ret = res.ret
                    /\ rb'.writeIndex = res.rb.writeIndex
                    /\ rb'.buffer = res.rb.buffer
           /\ C26_StopIOStep => (rb' = rb /\ prod' = prod /\ cons' = cons) ]_vars

\* C26 witness: the device was never started, the control thread is inside
\* StopIO with isRunning cleared, and a pull cycle is inside its copy loop
\* with samples delivered.
C26_Witness ==
    /\ captured = -1
    /\ ~ dev.isRunning
    /\ host.pc = "stop_unlock"
    /\ cons.pc = "copy"
    /\ cons.i > 0

\* ------------------------------------------------- claims under PollSpec
\* C27: the unlocked occupancy snapshot is a safe lower bound for the side
\* that polls it.  With one producer and one consumer, when the producer has
\* got n from GetAvailableWrite, whatever the consumer did between and after
\* the two loads (reads it polled for or not), its next write of a count up
\* to n is accepted in full; when the consumer has got m from
\* GetAvailableRead, its next read of a count up to m returns that count,
\* every sample of its output a real one and the zero-fill loop without an
\* iteration.
C27_SnapshotIsASafeLowerBound ==
    /\ (prod.pc = "ret" /\ hist.writeWithin) => prod.ret = prod.frames
    /\ (cons.pc = "ret" /\ hist.readWithin) =>
           /\ cons.ret = cons.frames
           /\ \A k \in 1 .. cons.frames : cons.out[k] \in 1 .. TagPeriod
    /\ (cons.pc = "zero" /\ hist.readWithin) => ~ (cons.i < cons.frames)
    /\ ("polled" \in DOMAIN prod /\ rb.lock # "producer")
           => prod.polled <= RingBuffer_GetAvailableWrite(rb)
    /\ ("polled" \in DOMAIN cons /\ rb.lock # "consumer")
           => cons.polled <= RingBuffer_GetAvailableRead(rb)

\* C27 witness: the producer polled while the consumer was inside a read, its
\* snapshot is below the free space there is now, and the consumer's last
\* read, of the count it had polled, has returned with samples.
C27_Witness ==
    /\ "polled" \in DOMAIN prod
    /\ prod.polled > 0
    /\ prod.polled < RingBuffer_GetAvailableWrite(rb)
    /\ hist.writeWithin
    /\ cons.pc = "ret"
    /\ hist.readWithin
    /\ cons.ret > 1
    /\ rb.writeIndex < rb.readIndex

====
